---------------------------- MODULE Spec2Model ----------------------------
(***************************************************************************)
(* A model of the tweet pipeline of XpipelineForAnish:                     *)
(*   - agents/tweet_analysis_agent.py : the asyncio batch over usernames   *)
(*   - tools/run_pipeline.py          : the sequential five-step pipeline  *)
(*   - tools/data_manager.py          : the artifact store and retention   *)
(*   - tools/analysis_processor.py    : the per-user analysis bundle       *)
(* Each part is a specification of its own over the variables it owns; the *)
(* variables of the other parts stay at their initial value.               *)
(***************************************************************************)
EXTENDS Integers, Sequences, FiniteSets, TLC

VARIABLES
    \* ---- TweetAnalysisAgent.process_multiple_users ----
    aUsernames,   \* the list `usernames` passed to process_multiple_users
    aPc,          \* position of each process_user coroutine
    aOutcome,     \* what the storer / analyzer call of each coroutine did
    aResult,      \* results[i] of asyncio.gather
    aLoop,        \* index of the coroutine that holds the event loop, 0 if none
    aReturned,    \* process_multiple_users has returned
    aCombined,    \* the dict process_multiple_users returned
    \* ---- tools/run_pipeline.py main ----
    pUsernames,   \* the list load_usernames() returned
    pPc,          \* the step main is in: idle, fetch, store, analyze, done, exit1
    pIdx,         \* index of the next iteration of the loop of that step
    fetch_results,     \* the dict fetch_all_users builds
    pFetchOrder,       \* the keys of fetch_results in insertion order
    analysis_results,  \* the dict of step 3
    pRawOwners,   \* the users with a {user}_raw_*.json file under data/raw
    pTrace,       \* per user, what each stage of this run did ("none": not run)
    \* ---- the files DataManager, DataFetcher and AnalysisProcessor keep ----
    fs,           \* the files: path -> [content, mday, msec, mseq]
    topDirs,      \* the names of the directories directly under data/
    clockDay,     \* datetime.now(): the day
    clockSec,     \* datetime.now(): the second of that day
    wseq,         \* number of file writes so far (orders st_mtime within a second)
    lastOp,       \* the last call made and what it returned
    backups,      \* data/backups: backup name -> what was copied into it
    \* ---- AnalysisProcessor.analyze_user_tweets, from load to bundle ----
    raw_tweets,        \* the list json.load read from the latest raw file
    analyzed_tweets,   \* the list the loop over the tweets appends to
    anPc,              \* idle, loop (analysing tweets), done (bundle built)
    bundle,            \* what _generate_comprehensive_analysis returned
    recommendations    \* the list _generate_recommendations returned

agentVars == <<aUsernames, aPc, aOutcome, aResult, aLoop, aReturned, aCombined>>

pipeVars == <<pUsernames, pPc, pIdx, fetch_results, pFetchOrder,
              analysis_results, pRawOwners, pTrace>>

storeVars == <<fs, topDirs, clockDay, clockSec, wseq, lastOp, backups>>

analysisVars == <<raw_tweets, analyzed_tweets, anPc, bundle, recommendations>>

vars == <<agentVars, pipeVars, storeVars, analysisVars>>

-----------------------------------------------------------------------------
(* Bounds and shared values *)

\* Usernames are sequences of the "_"-separated parts of the name, so that a
\* file name  {username}_{kind}_{timestamp}.json  is a sequence of parts too.
Users == {<<"al">>, <<"al", "raw">>}

MaxBatch == 3

Range(s) == {s[i] : i \in DOMAIN s}

SeqsUpTo(S, n) == UNION {[1..k -> S] : k \in 0..n}

\* The empty dict {}.
EmptyDict == << >>

\* dict.get(key, default)
Get(d, key, default) == IF key \in DOMAIN d THEN d[key] ELSE default

\* results[i] while task i has not returned.
NoResult == [status |-> "pending"]

-----------------------------------------------------------------------------
(* agents/tweet_analysis_agent.py *)

\* What a call into the storer or the analyzer can do: return a dict with
\* status success, return a dict with status error and a message, or raise.
StageOutcomes == {"success", "error", "raise"}

\* _fetch_and_store_tweets / _analyze_user_tweets: the try/except around the
\* call turns a raised exception into {"status": "error", "message": str(e)}.
StageWrapper(outcome) ==
    IF outcome = "success"
    THEN [status |-> "success"]
    ELSE [status |-> "error", message |-> TRUE]

\* The error dict process_user returns when a step did not succeed.
StepErrorNoStep(step) == [status |-> "error", message |-> TRUE]

StepError(step) == [status |-> "error", message |-> TRUE, step |-> step]

\* The success dict of process_user.
ProcessUserSuccess ==
    [status |-> "success", message |-> TRUE, storage |-> "success",
     analysis |-> "success", timestamp |-> TRUE]

\* combined_results[username] for results[i]: gather(return_exceptions=True)
\* hands back an exception a task raised as its result.
CombinedEntry(result) ==
    IF result.status = "exception"
    THEN [status |-> "error", message |-> TRUE]
    ELSE result

\* The combining loop of process_multiple_users: one key per username of the
\* list, a later occurrence of a name overwriting an earlier one.
CombineDroppingErrors(usernames, results) ==
    LET ok == {i \in DOMAIN usernames : results[i].status = "success"}
    IN  [u \in {usernames[i] : i \in ok} |->
            results[CHOOSE i \in ok :
                        /\ usernames[i] = u
                        /\ \A j \in ok : usernames[j] = u => j <= i]]

CombineResults(usernames, results) ==
    [u \in Range(usernames) |->
        CombinedEntry(results[CHOOSE i \in DOMAIN usernames :
                    /\ usernames[i] = u
                    /\ \A j \in DOMAIN usernames : usernames[j] = u => j <= i])]

AgentInit ==
    /\ aUsernames \in SeqsUpTo(Users, MaxBatch)
    /\ aPc = [i \in DOMAIN aUsernames |-> "created"]
    /\ aOutcome = [i \in DOMAIN aUsernames |->
                      [fetch_and_store |-> "none", analysis |-> "none"]]
    /\ aResult = [i \in DOMAIN aUsernames |-> NoResult]
    /\ aLoop = 0
    /\ aReturned = FALSE
    /\ aCombined = EmptyDict

\* asyncio.gather wraps the coroutines in tasks in list order; the loop runs
\* them first in, first out.  process_user awaits only coroutines that never
\* suspend, so a task that has started keeps the loop until it returns.
AgentStart(i) ==
    /\ ~aReturned
    /\ aLoop = 0
    /\ aPc[i] = "created"
    /\ \A j \in DOMAIN aUsernames : j < i => aPc[j] = "returned"
    /\ aPc' = [aPc EXCEPT ![i] = "fetch_and_store"]
    /\ aLoop' = i
    /\ UNCHANGED <<aUsernames, aOutcome, aResult, aReturned, aCombined>>

\* Step 1 of process_user: storage_result = await self._fetch_and_store_tweets
AgentFetchAndStore(i, outcome) ==
    /\ aLoop = i
    /\ aPc[i] = "fetch_and_store"
    /\ aOutcome' = [aOutcome EXCEPT ![i].fetch_and_store = outcome]
    /\ LET storage_result == StageWrapper(outcome)
       IN  IF storage_result.status # "success"
           THEN /\ aResult' = [aResult EXCEPT ![i] = StepError("fetch_and_store")]
                /\ aPc' = [aPc EXCEPT ![i] = "returned"]
                /\ aLoop' = 0
           ELSE /\ aPc' = [aPc EXCEPT ![i] = "analysis"]
                /\ UNCHANGED <<aResult, aLoop>>
    /\ UNCHANGED <<aUsernames, aReturned, aCombined>>

\* Step 2 of process_user: analysis_result = await self._analyze_user_tweets
AgentAnalyze(i, outcome) ==
    /\ aLoop = i
    /\ aPc[i] = "analysis"
    /\ aOutcome' = [aOutcome EXCEPT ![i].analysis = outcome]
    /\ LET analysis_result == StageWrapper(outcome)
       IN  aResult' = [aResult EXCEPT ![i] =
                          IF analysis_result.status # "success"
                          THEN StepError("analysis")
                          ELSE ProcessUserSuccess]
    /\ aPc' = [aPc EXCEPT ![i] = "returned"]
    /\ aLoop' = 0
    /\ UNCHANGED <<aUsernames, aReturned, aCombined>>

\* gather has every result: process_multiple_users builds and returns the dict.
AgentCombine ==
    /\ ~aReturned
    /\ \A i \in DOMAIN aUsernames : aPc[i] = "returned"
    /\ aCombined' = CombineResults(aUsernames, aResult)
    /\ aReturned' = TRUE
    /\ UNCHANGED <<aUsernames, aPc, aOutcome, aResult, aLoop>>

\* The agent is not the program that runs.
AgentIdle ==
    /\ aUsernames = << >>
    /\ aPc = << >>
    /\ aOutcome = << >>
    /\ aResult = << >>
    /\ aLoop = 0
    /\ aReturned = TRUE
    /\ aCombined = EmptyDict

-----------------------------------------------------------------------------
(* tools/run_pipeline.py, with the DataFetcher, AnalysisProcessor and
   DataManager calls main makes *)

IsPrefix(p, s) == Len(p) <= Len(s) /\ SubSeq(s, 1, Len(p)) = p

\* glob("{username}_{kind}_*.json") against the parts of a file name.
GlobMatches(username, kind, name) == IsPrefix(username \o <<kind>>, name)

\* The client.actor(...).call and dataset iteration of fetch_user_tweets:
\* it raises, or yields no tweet, tweets without media, tweets with media.
FetchOutcomes == {"raise", "empty", "tweets", "tweets_media"}

\* fetch_user_tweets: the dict it returns; its try/except turns every
\* exception into an error dict.
FetchUserTweets(username, outcome) ==
    IF outcome = "raise"
    THEN [status |-> "error", username |-> username, message |-> TRUE]
    ELSE [status |-> "success", username |-> username, tweets |-> outcome]

\* main has no step that generates or stores an insights report, so
\* store_insights stays "none".
NoTrace == [fetch |-> "none", store_raw |-> "none", media |-> "none",
            analysis |-> "none", store_analysis |-> "none",
            store_insights |-> "none"]

\* analyze_user_tweets finds a raw file for username under data/raw.
HasRawFile(username, owners) ==
    \E v \in owners : GlobMatches(username, "raw", v \o <<"raw", "ts">>)

PipeInit ==
    /\ pUsernames \in SeqsUpTo(Users, MaxBatch) \ {<< >>}
    /\ pPc = "fetch"
    /\ pIdx = 1
    /\ fetch_results = EmptyDict
    /\ pFetchOrder = << >>
    /\ analysis_results = EmptyDict
    /\ pRawOwners \in SUBSET Users
    /\ pTrace = [u \in Users |-> NoTrace]

PipeIdle ==
    /\ pUsernames = << >>
    /\ pPc = "idle"
    /\ pIdx = 1
    /\ fetch_results = EmptyDict
    /\ pFetchOrder = << >>
    /\ analysis_results = EmptyDict
    /\ pRawOwners = {}
    /\ pTrace = [u \in Users |-> NoTrace]

\* One iteration of the loop of fetch_all_users (step 1).  A successful
\* fetch_user_tweets has written data/raw/{username}_raw_{timestamp}.json.
PipeFetch(outcome) ==
    /\ pPc = "fetch"
    /\ LET username == pUsernames[pIdx]
       IN  /\ fetch_results' =
                  (username :> FetchUserTweets(username, outcome)) @@ fetch_results
           /\ pFetchOrder' = IF username \in DOMAIN fetch_results
                             THEN pFetchOrder
                             ELSE Append(pFetchOrder, username)
           /\ pRawOwners' = IF outcome = "raise"
                            THEN pRawOwners
                            ELSE pRawOwners \cup {username}
           /\ pTrace' = [pTrace EXCEPT ![username].fetch =
                             IF outcome = "raise" THEN "raise" ELSE "success"]
    /\ IF pIdx = Len(pUsernames)
       THEN pPc' = "store" /\ pIdx' = 1
       ELSE pPc' = pPc /\ pIdx' = pIdx + 1
    /\ UNCHANGED <<pUsernames, analysis_results>>

\* store_tweet_data(tweets, username, 'raw'): an empty list is an error, and
\* its try/except turns a failed write into an error dict.
StoreRawOutcomes(tweets) ==
    IF tweets = "empty" THEN {"error"} ELSE {"success", "error"}

\* download_and_store_media is called when the tweets carry media; its
\* base_dir.mkdir is outside any try and can raise.
MediaOutcomes(tweets) ==
    IF tweets = "tweets_media" THEN {"saved", "raise"} ELSE {"none"}

\* One iteration of the loop of step 2 over fetch_results.items().
PipeStore(store, media) ==
    /\ pPc = "store"
    /\ LET username == pFetchOrder[pIdx]
           result == fetch_results[username]
           last == pIdx = Len(pFetchOrder)
       IN  IF result.status = "success"
           THEN /\ store \in StoreRawOutcomes(result.tweets)
                /\ media \in MediaOutcomes(result.tweets)
                /\ pTrace' = [pTrace EXCEPT ![username].store_raw = store,
                                            ![username].media = media]
                /\ IF media = "raise"
                   THEN pPc' = "exit1" /\ pIdx' = pIdx
                   ELSE IF last
                        THEN pPc' = "analyze" /\ pIdx' = 1
                        ELSE pPc' = pPc /\ pIdx' = pIdx + 1
           ELSE /\ store = "none" /\ media = "none"
                /\ pTrace' = pTrace
                /\ IF last
                   THEN pPc' = "analyze" /\ pIdx' = 1
                   ELSE pPc' = pPc /\ pIdx' = pIdx + 1
    /\ UNCHANGED <<pUsernames, fetch_results, pFetchOrder, analysis_results,
                   pRawOwners>>

\* analyze_user_tweets: no raw file is an error dict; otherwise the analysis
\* succeeds or an exception becomes an error dict.
AnalyzeOutcomes(username, owners) ==
    IF HasRawFile(username, owners) THEN {"success", "error"} ELSE {"error"}

\* One iteration of the loop of step 3 over usernames.
PipeAnalyze(analysis, store) ==
    /\ pPc = "analyze"
    /\ LET username == pUsernames[pIdx]
       IN  /\ analysis \in AnalyzeOutcomes(username, pRawOwners)
           /\ store \in IF analysis = "success" THEN {"success", "error"}
                                               ELSE {"none"}
           /\ analysis_results' =
                  (username :> IF analysis = "success"
                               THEN [status |-> "success", message |-> TRUE,
                                     analysis |-> TRUE]
                               ELSE [status |-> "error", message |-> TRUE])
                  @@ analysis_results
           /\ pTrace' = [pTrace EXCEPT ![username].analysis = analysis,
                                       ![username].store_analysis = store]
    /\ IF pIdx = Len(pUsernames)
       THEN pPc' = "done" /\ pIdx' = pIdx
       ELSE pPc' = pPc /\ pIdx' = pIdx + 1
    /\ UNCHANGED <<pUsernames, fetch_results, pFetchOrder, pRawOwners>>

-----------------------------------------------------------------------------
(* tools/data_manager.py, and the files tools/data_fetcher.py and
   tools/analysis_processor.py write under data/ *)

MaxDay == 2
MaxSec == 1
MaxWrites == 2
MaxKeep == 1
MaxRetentionWrites == 1

\* strftime('%Y-%m-%d'), strftime('%Y%m%d') and strftime('%H%M%S') of the
\* days and seconds of the model.
DateNames == <<"2024-01-01", "2024-01-02", "2024-01-03", "2024-01-04",
               "2024-01-05", "2024-01-06">>
DateDigitsOf == <<"20240101", "20240102", "20240103", "20240104",
                  "20240105", "20240106">>
TimeDigitsOf == <<"000000", "000001", "000002", "000003">>

DateStr(day) == DateNames[day + 1]
DateDigits(day) == DateDigitsOf[day + 1]
TimeDigits(sec) == TimeDigitsOf[sec + 1]

\* datetime.strptime(name, '%Y-%m-%d') does not raise ValueError.
ParsesAsDate(name) == \E i \in DOMAIN DateNames : DateNames[i] = name

DayOfName(name) == (CHOOSE i \in DOMAIN DateNames : DateNames[i] = name) - 1

\* target_date.replace('-', '')
StripDashes(date) ==
    IF ParsesAsDate(date) THEN DateDigits(DayOfName(date)) ELSE date

\* ensure_directories of DataManager
StdDirs == {"raw", "analyzed", "processed", "archived", "backups", "logs",
            "insights", "reports", "temp"}

\* json.dump writes the keys of a dict as strings; json.load reads a complete
\* text back and raises on a truncated one.
JsonDump(payload) ==
    [complete |-> TRUE,
     text |-> [body |-> payload.body,
               hourKeys |-> IF payload.hourKeys = "int" THEN "str"
                                                        ELSE payload.hourKeys]]

JsonLoad(content) == content.text

PartialText == [complete |-> FALSE, text |-> [body |-> 0, hourKeys |-> "none"]]

\* The payloads handed to the store calls.  body names the content: 0 is
\* the empty list, and the n-th write of the model carries content n, so that
\* two stored payloads never look alike.  hourKeys tells whether the payload
\* has a dict with int keys (the hourly_distribution of an analysis bundle).
EmptyTweets == [body |-> 0, hourKeys |-> "none"]
FreshTweets == [body |-> wseq + 1, hourKeys |-> "none"]
TweetLists == {EmptyTweets, FreshTweets}
AnalysisBundles == {[body |-> wseq + 1, hourKeys |-> k] : k \in {"int", "none"}}
InsightReports == {[body |-> wseq + 1, hourKeys |-> "none"]}

\* Paths.  data/{sub}/{name}, data/{part}/{sub}/{name} and
\* output/{part}/tweets/{sub}/{owner}/{name}
DataPath(sub, name) ==
    [root |-> "data", part |-> "", sub |-> sub, owner |-> << >>, name |-> name]

PartPath(part, sub, name) ==
    [root |-> "data", part |-> part, sub |-> sub, owner |-> << >>, name |-> name]

OutputPath(part, sub, owner, name) ==
    [root |-> "output", part |-> part, sub |-> sub, owner |-> owner, name |-> name]

\* f"{username}_{kind}_{timestamp}.json" with timestamp = %Y%m%d_%H%M%S
FileName(username, kind, day, sec) ==
    username \o <<kind, DateDigits(day), TimeDigits(sec)>>

\* open(filepath, 'w') and json.dump: the file as it is after the call.
\* A failed write leaves no file (open raised) or a truncated one.
WriteOutcomes == {"ok", "open_fails", "write_fails"}

WriteFile(files, path, payload, outcome) ==
    LET stamp(c) == [content |-> c, mday |-> clockDay, msec |-> clockSec,
                     mseq |-> wseq + 1]
    IN  CASE outcome = "ok" -> (path :> stamp(JsonDump(payload))) @@ files
          [] outcome = "write_fails" -> (path :> stamp(PartialText)) @@ files
          [] OTHER -> files

NoOp == [op |-> "none"]

StoreInit ==
    /\ fs = << >>
    /\ topDirs = StdDirs
    /\ clockDay = 0
    /\ clockSec = 0
    /\ wseq = 0
    /\ lastOp = NoOp
    /\ backups = EmptyDict

\* No DataManager is in use.
StoreIdle ==
    /\ fs = << >>
    /\ topDirs = {}
    /\ clockDay = 0
    /\ clockSec = 0
    /\ wseq = MaxWrites
    /\ lastOp = NoOp
    /\ backups = EmptyDict

\* What a store call leaves in lastOp.
StoreReturn(fn, kind, username, payload, path, status) ==
    [op |-> "store", fn |-> fn, kind |-> kind, username |-> username,
     payload |-> payload, path |-> path, status |-> status,
     existed |-> path \in DOMAIN fs,
     before |-> IF path \in DOMAIN fs THEN fs[path].content ELSE PartialText]

CanWrite == wseq < MaxWrites

\* DataManager.store_tweet_data(tweets, username, data_type)
store_tweet_data(tweets, username, data_type, outcome) ==
    /\ CanWrite
    /\ IF tweets = EmptyTweets
       THEN /\ outcome = "ok"
            /\ lastOp' = StoreReturn("store_tweet_data", data_type, username,
                                      tweets, DataPath("", << >>), "error")
            /\ UNCHANGED <<fs, wseq>>
       ELSE LET sub == IF data_type = "raw" THEN "raw" ELSE "analyzed"
                filepath == OutputPath(DateStr(clockDay), sub, username,
                               FileName(username, data_type, clockDay, clockSec))
            IN  /\ fs' = WriteFile(fs, filepath, tweets, outcome)
                /\ wseq' = wseq + 1
                /\ lastOp' = StoreReturn("store_tweet_data", data_type, username,
                                 tweets, filepath,
                                 IF outcome = "ok" THEN "success" ELSE "error")
    /\ UNCHANGED <<topDirs, clockDay, clockSec>>

\* DataManager.store_analysis_results(analysis_data, username)
store_analysis_results(analysis_data, username, outcome) ==
    /\ CanWrite
    /\ LET filepath == OutputPath(DateStr(clockDay), "analyzed", username,
                           FileName(username, "analysis", clockDay, clockSec))
       IN  /\ fs' = WriteFile(fs, filepath, analysis_data, outcome)
           /\ lastOp' = StoreReturn("store_analysis_results", "analyzed", username,
                            analysis_data, filepath,
                            IF outcome = "ok" THEN "success" ELSE "error")
    /\ wseq' = wseq + 1
    /\ UNCHANGED <<topDirs, clockDay, clockSec>>

\* DataManager.store_insights_report(insights_data, username)
store_insights_report(insights_data, username, outcome) ==
    /\ CanWrite
    /\ LET filepath == DataPath("insights",
                           FileName(username, "insights", clockDay, clockSec))
       IN  /\ fs' = WriteFile(fs, filepath, insights_data, outcome)
           /\ lastOp' = StoreReturn("store_insights_report", "insights", username,
                            insights_data, filepath,
                            IF outcome = "ok" THEN "success" ELSE "error")
    /\ wseq' = wseq + 1
    /\ UNCHANGED <<topDirs, clockDay, clockSec>>

\* The "Save raw data" part of DataFetcher.fetch_user_tweets.
fetch_user_tweets(tweets, username, outcome) ==
    /\ CanWrite
    /\ LET filepath == DataPath("raw",
                           FileName(username, "raw", clockDay, clockSec))
       IN  /\ fs' = WriteFile(fs, filepath, tweets, outcome)
           /\ lastOp' = StoreReturn("fetch_user_tweets", "raw", username,
                            tweets, filepath,
                            IF outcome = "ok" THEN "success" ELSE "error")
    /\ wseq' = wseq + 1
    /\ UNCHANGED <<topDirs, clockDay, clockSec>>

\* The files of data/{sub}/ that glob("{username}_{kind}_*.json") yields.
GlobUser(files, sub, username, kind) ==
    {p \in DOMAIN files :
        /\ p.root = "data" /\ p.part = "" /\ p.sub = sub
        /\ GlobMatches(username, kind, p.name)}

\* max(files, key=lambda x: x.stat().st_mtime)
Latest(files, paths) ==
    CHOOSE p \in paths : \A q \in paths : files[q].mseq <= files[p].mseq

\* _generate_comprehensive_analysis, as far as the store is concerned: {} for
\* no tweets, else a bundle of those tweets.
AnalysisOf(tweets) ==
    IF tweets = EmptyTweets
    THEN [body |-> 0, hourKeys |-> "none"]
    ELSE [body |-> tweets.body, hourKeys |-> "int"]

\* The "Save analyzed results" part of AnalysisProcessor.analyze_user_tweets:
\* it reads the latest raw file of the user and writes the bundle.
analyze_user_tweets(username, outcome) ==
    /\ CanWrite
    /\ LET user_files == GlobUser(fs, "raw", username, "raw")
           latest_file == Latest(fs, user_files)
           analysis_results_ ==
               IF user_files = {} THEN EmptyTweets
               ELSE AnalysisOf(JsonLoad(fs[latest_file].content))
           output_file == DataPath("analyzed",
                              FileName(username, "analyzed", clockDay, clockSec))
       IN  IF user_files = {} \/ ~fs[Latest(fs, user_files)].content.complete
           THEN /\ outcome = "ok"
                /\ lastOp' = StoreReturn("analyze_user_tweets", "analyzed",
                                 username, analysis_results_, DataPath("", << >>),
                                 "error")
                /\ UNCHANGED <<fs, wseq>>
           ELSE /\ fs' = WriteFile(fs, output_file, analysis_results_, outcome)
                /\ wseq' = wseq + 1
                /\ lastOp' = StoreReturn("analyze_user_tweets", "analyzed",
                                 username, analysis_results_, output_file,
                                 IF outcome = "ok" THEN "success" ELSE "error")
    /\ UNCHANGED <<topDirs, clockDay, clockSec>>

\* DataManager.retrieve_user_data(username, data_type): the latest file of
\* each requested kind under data/{kind}/, loaded.
RetrieveKinds(data_type) ==
    IF data_type = "all" THEN {"raw", "analyzed", "insights"} ELSE {data_type}

RetrieveUserData(files, username, data_type) ==
    LET found == {k \in RetrieveKinds(data_type) :
                     GlobUser(files, k, username, k) # {}}
        latest(k) == files[Latest(files, GlobUser(files, k, username, k))].content
    IN  IF \E k \in found : ~latest(k).complete
        THEN [status |-> "error", message |-> TRUE]
        ELSE [status |-> "success", username |-> username,
              data_type |-> data_type,
              data |-> [k \in found |-> JsonLoad(latest(k))]]

\* The last call that was not a retrieve.
LastChange == IF lastOp.op = "retrieve" THEN lastOp.after ELSE lastOp

retrieve_user_data(username, data_type) ==
    /\ lastOp' = [op |-> "retrieve", username |-> username,
                  data_type |-> data_type,
                  result |-> RetrieveUserData(fs, username, data_type),
                  after |-> LastChange]
    /\ UNCHANGED <<fs, topDirs, clockDay, clockSec, wseq>>

\* DataManager._should_move_file: target_date.replace('-', '') in file.name
ShouldMoveFile(name, target_date) ==
    \E i \in DOMAIN name : name[i] = StripDashes(target_date)

OrganizeSubdirs == <<"raw", "analyzed", "processed", "insights">>

SubdirIndex(subdirs, sub) == CHOOSE i \in DOMAIN subdirs : subdirs[i] = sub

\* The files the loops of organize_data_by_date would move.
FilesToMove(files, date) ==
    {p \in DOMAIN files :
        /\ p.root = "data" /\ p.part = ""
        /\ p.sub \in Range(OrganizeSubdirs)
        /\ ShouldMoveFile(p.name, date)}

\* The sets of entries a loop over the subdirectories in order, and over the
\* entries of each in directory order, has handled when it reaches entry f.
HandledBefore(entries, subdirs, f) ==
    LET earlier == {p \in entries :
                       SubdirIndex(subdirs, p.sub) < SubdirIndex(subdirs, f.sub)}
        same == {p \in entries : p.sub = f.sub /\ p # f}
    IN  {earlier \cup S : S \in SUBSET same}

\* shutil.move of every file of `moved` into data/{date}/{sub}/, replacing a
\* file of that name already there.
MoveFilesKeepingSource(files, moved, date) ==
    LET dests == {PartPath(date, q.sub, q.name) : q \in moved}
    IN  [p \in DOMAIN files \cup dests |->
            IF p \in dests THEN files[DataPath(p.sub, p.name)] ELSE files[p]]

MoveFiles(files, moved, date) ==
    LET dests == {PartPath(date, q.sub, q.name) : q \in moved}
    IN  [p \in (DOMAIN files \ moved) \cup dests |->
            IF p \in dests THEN files[DataPath(p.sub, p.name)] ELSE files[p]]

\* The call is the second of two in a row: the call that returned just
\* before it was a successful organize_data_by_date of the same date.
CalledAgain(date) ==
    /\ lastOp.op = "organize"
    /\ lastOp.date = date
    /\ lastOp.status = "success"

OrganizeReturn(date, status, moved) ==
    [op |-> "organize", date |-> date, status |-> status, moved |-> moved,
     fsBefore |-> fs, dirsBefore |-> topDirs, again |-> CalledAgain(date)]

\* DataManager.organize_data_by_date(date).  fail = "none": every move
\* succeeds; "mkdir": the mkdir of the date directory or of one of its
\* subdirectories raises; "move": a shutil.move raises.
organize_data_by_date(date, fail) ==
    LET all == FilesToMove(fs, date)
    IN  \/ /\ fail = "none"
           /\ fs' = MoveFiles(fs, all, date)
           /\ topDirs' = topDirs \cup {date}
           /\ lastOp' = OrganizeReturn(date, "success", all)
        \/ /\ fail = "mkdir"
           /\ topDirs' \in {topDirs, topDirs \cup {date}}
           /\ UNCHANGED fs
           /\ lastOp' = OrganizeReturn(date, "error", {})
        \/ /\ fail = "move"
           /\ \E f \in all :
                 \E moved \in HandledBefore(all, OrganizeSubdirs, f) :
                    /\ fs' = MoveFiles(fs, moved, date)
                    /\ lastOp' = OrganizeReturn(date, "error", moved)
           /\ topDirs' = topDirs \cup {date}

\* cutoff_date = datetime.now() - timedelta(days=days_to_keep), and
\* t < cutoff_date for a time t = (day, sec).
BeforeCutoff(day, sec, days_to_keep) ==
    \/ day < clockDay - days_to_keep
    \/ day = clockDay - days_to_keep /\ sec < clockSec

\* The date directories the first loop of cleanup_old_data removes:
\* strptime gives midnight of the day the name spells.
ExpiredDirs(dirs, days_to_keep) ==
    {d \in dirs \ {"archived", "backups", "logs"} :
        ParsesAsDate(d) /\ BeforeCutoff(DayOfName(d), 0, days_to_keep)}

CleanupSubdirs == <<"raw", "analyzed", "processed", "temp">>

\* The loose files the second loop removes (_is_file_old).
OldLooseFiles(files, days_to_keep) ==
    {p \in DOMAIN files :
        /\ p.root = "data" /\ p.part = ""
        /\ p.sub \in Range(CleanupSubdirs)
        /\ BeforeCutoff(files[p].mday, files[p].msec, days_to_keep)}

\* shutil.rmtree of the directories `dirs` and unlink of the files `loose`.
RemoveEntries(files, dirs, loose) ==
    LET keep == {p \in DOMAIN files :
                    /\ ~(p.root = "data" /\ p.part \in dirs)
                    /\ p \notin loose}
    IN  [p \in keep |-> files[p]]

CleanupReturn(days_to_keep, status, dirs, loose, failed) ==
    [op |-> "cleanup", days_to_keep |-> days_to_keep, status |-> status,
     hasList |-> status = "success",
     removedDirs |-> dirs, removedFiles |-> loose, failed |-> failed,
     looseBefore |-> OldLooseFiles(fs, days_to_keep), dirsBefore |-> topDirs]

\* DataManager.cleanup_old_data(days_to_keep).  fail = "none": every deletion
\* succeeds; "rmtree": a shutil.rmtree raises; "unlink": a file.unlink raises.
\* An exception leaves through the except clause of the method.
cleanup_old_data(days_to_keep, fail) ==
    LET expired == ExpiredDirs(topDirs, days_to_keep)
        loose == OldLooseFiles(fs, days_to_keep)
    IN  \/ /\ fail = "none"
           /\ fs' = RemoveEntries(fs, expired, loose)
           /\ topDirs' = topDirs \ expired
           /\ lastOp' = CleanupReturn(days_to_keep, "success", expired, loose,
                                      "none")
        \/ /\ fail = "rmtree"
           /\ \E d \in expired : \E done \in SUBSET (expired \ {d}) :
                 /\ fs' = RemoveEntries(fs, done, {})
                 /\ topDirs' = topDirs \ done
                 /\ lastOp' = CleanupReturn(days_to_keep, "error", done, {},
                                            "rmtree")
        \/ /\ fail = "unlink"
           /\ \E f \in loose :
                 \E done \in HandledBefore(loose, CleanupSubdirs, f) :
                    /\ fs' = RemoveEntries(fs, expired, done)
                    /\ lastOp' = CleanupReturn(days_to_keep, "error", expired,
                                               done, "unlink")
           /\ topDirs' = topDirs \ expired

\* The names create_backup is called with.
BackupNames == {"nightly"}

\* item.name not in ['backups', 'archived', 'logs']
BackupSkipped == {"backups", "archived", "logs"}

\* The files under the directories `dirs` of data/, each with its content.
FilesUnder(files, dirs) ==
    LET under == {p \in DOMAIN files :
                     /\ p.root = "data"
                     /\ \/ p.part = "" /\ p.sub \in dirs
                        \/ p.part \in dirs}
    IN  [p \in under |-> files[p].content]

NoBackup == [dirs |-> {}, files |-> EmptyDict]

BackupReturn(backup_name, status) ==
    [op |-> "backup", name |-> backup_name, status |-> status,
     before |-> backups]

\* DataManager.create_backup(backup_name).  mkdir(parents=True,
\* exist_ok=True) of backups/{name}, then one shutil.copytree per directory
\* of data/ in the order of iterdir; copytree raises FileExistsError when
\* its destination exists.  fail = "none": nothing else fails; "mkdir": the
\* mkdir raises; "copy": a copytree raises, having made its destination
\* directory or not.  Nothing is removed on the way out.
create_backup(backup_name, fail) ==
    LET eligible == topDirs \ BackupSkipped
        old == Get(backups, backup_name, NoBackup)
        clash == eligible \cap old.dirs
        Copied(done, started) ==
            [dirs |-> old.dirs \cup done \cup started,
             files |-> FilesUnder(fs, done) @@ old.files]
    IN  /\ \/ /\ fail = "mkdir"
              /\ backup_name \notin DOMAIN backups
              /\ UNCHANGED backups
              /\ lastOp' = BackupReturn(backup_name, "error")
           \/ /\ fail = "none"
              /\ clash = {}
              /\ backups' = (backup_name :> Copied(eligible, {})) @@ backups
              /\ lastOp' = BackupReturn(backup_name, "success")
           \/ /\ fail = "none"
              /\ clash # {}
              /\ \E done \in SUBSET (eligible \ clash) :
                    backups' = (backup_name :> Copied(done, {})) @@ backups
              /\ lastOp' = BackupReturn(backup_name, "error")
           \/ /\ fail = "copy"
              /\ \E d \in eligible \ clash :
                    \E done \in SUBSET (eligible \ (clash \cup {d})),
                       started \in {{}, {d}} :
                       backups' = (backup_name :> Copied(done, started))
                                      @@ backups
              /\ lastOp' = BackupReturn(backup_name, "error")
        /\ UNCHANGED <<fs, topDirs, clockDay, clockSec, wseq>>

\* Time passes: the next second of the day, or midnight of the next day.
\* lastOp is the call that has just returned, so it is forgotten.
Tick ==
    /\ clockSec < MaxSec
    /\ clockSec' = clockSec + 1
    /\ lastOp' = NoOp
    /\ UNCHANGED <<fs, topDirs, clockDay, wseq>>

NextDay ==
    /\ clockDay < MaxDay
    /\ clockDay' = clockDay + 1
    /\ clockSec' = 0
    /\ lastOp' = NoOp
    /\ UNCHANGED <<fs, topDirs, wseq>>

\* Usernames for the organizing of files: a plain one, and one that is the
\* digits of a date (a screen name may consist of digits).
DatedUsers == {<<"al">>, <<"20240102">>}

-----------------------------------------------------------------------------
(* tools/analysis_processor.py: from the loaded tweets to the bundle *)

MaxItems == 3

\* A raw tweet as the analysis reads it: a dict that has some of the keys
\* polarity, favorite_count, retweet_count, reply_count, quote_count, media,
\* created_at and id_str.  polarity stands for the TextBlob polarity of its
\* text (-1: below -0.1, 0: within, 1: above 0.1); media tells whether the
\* tweet has a 'media' key and whether its list is empty.  NotADict is a
\* list element that is no dict, on which tweet.get raises.
NotADict == [not_a_dict |-> TRUE]

RawTweets ==
    {NotADict} \cup
    [polarity : {-1, 0, 1}, favorite_count : 0..1,
     media : {"absent", "empty", "photo"}]

\* A dict that has the key with one of the values, or has not the key.
Optional(key, values) == {EmptyDict} \cup {key :> v : v \in values}

\* Tweets that differ in which engagement counts they carry.
EngagementTweets ==
    {f @@ r @@ p @@ q : f \in Optional("favorite_count", {0, 3}),
                        r \in Optional("retweet_count", {2}),
                        p \in Optional("reply_count", {1}),
                        q \in Optional("quote_count", {1})}

MaxRanked == 6

\* Lists of tweets that carry their place in the list as id_str and differ
\* in their likes.
NumberedTweetLists ==
    UNION {{[i \in 1..n |-> ("id_str" :> i) @@ ("favorite_count" :> c[i])] :
               c \in [1..n -> 0..2]} : n \in 0..MaxRanked}

\* Tweets that differ in their created_at: absent, empty, an ISO string
\* (which the format of strptime does not accept) or a string it accepts.
DatedTweets ==
    {c @@ f @@ p :
        c \in Optional("created_at",
                 {"", "2024-01-01T09:00:00",
                  "Mon Jan 01 09:00:00 +0000 2024",
                  "Mon Jan 01 17:00:00 +0000 2024",
                  "Tue Jan 02 09:00:00 +0000 2024"}),
        f \in {"favorite_count" :> 0, "favorite_count" :> 2},
        p \in {"polarity" :> 0, "polarity" :> 1}}

\* _classify_sentiment
ClassifySentiment(polarity) ==
    IF polarity > 0 THEN "bullish"
    ELSE IF polarity < 0 THEN "bearish" ELSE "neutral"

\* analyze_single_tweet: the analysis of one tweet, or {'error','raw_tweet'}
\* when anything raised.
\* _extract_engagement_metrics with the quotes left out of the total.
ExtractEngagementWithoutQuotes(tweet) ==
    LET retweets == Get(tweet, "retweet_count", 0)
        likes == Get(tweet, "favorite_count", 0)
        replies == Get(tweet, "reply_count", 0)
        quotes == Get(tweet, "quote_count", 0)
    IN  [retweets |-> retweets, likes |-> likes, replies |-> replies,
         quotes |-> quotes,
         total_engagement |-> retweets + likes + replies]

\* _extract_engagement_metrics: each count with tweet.get(key, 0), and
\* total_engagement = sum(engagement.values())
ExtractEngagementMetrics(tweet) ==
    LET retweets == Get(tweet, "retweet_count", 0)
        likes == Get(tweet, "favorite_count", 0)
        replies == Get(tweet, "reply_count", 0)
        quotes == Get(tweet, "quote_count", 0)
    IN  [retweets |-> retweets, likes |-> likes, replies |-> replies,
         quotes |-> quotes,
         total_engagement |-> retweets + likes + replies + quotes]

\* _extract_media_info: has_media is set as soon as 'media' in tweet.
ExtractMediaInfo(tweet) ==
    [has_media |-> Get(tweet, "media", "absent") # "absent",
     images |-> IF Get(tweet, "media", "absent") = "photo" THEN 1 ELSE 0]

analyze_single_tweet(tweet) ==
    IF tweet = NotADict
    THEN [error |-> TRUE, raw_tweet |-> tweet]
    ELSE [id |-> Get(tweet, "id_str", ""),
          created_at |-> Get(tweet, "created_at", ""),
          sentiment |-> [overall_sentiment |->
                            ClassifySentiment(Get(tweet, "polarity", 0))],
          engagement |-> ExtractEngagementMetrics(tweet),
          media |-> ExtractMediaInfo(tweet)]

\* The sentiment read with a default that is not one of the three labels.
OverallSentimentUnknown(t) ==
    IF "sentiment" \in DOMAIN t THEN t.sentiment.overall_sentiment ELSE "unknown"

\* tweet.get('sentiment', {}).get('overall_sentiment', 'neutral') and the like
OverallSentiment(t) ==
    IF "sentiment" \in DOMAIN t THEN t.sentiment.overall_sentiment ELSE "neutral"

TotalEngagement(t) ==
    IF "engagement" \in DOMAIN t THEN t.engagement.total_engagement ELSE 0

HasMedia(t) == IF "media" \in DOMAIN t THEN t.media.has_media ELSE FALSE

\* Counter over the sentiments met, as a dict: only the keys that occurred.
SentimentDistribution(ts) ==
    [k \in {OverallSentiment(ts[i]) : i \in DOMAIN ts} |->
        Cardinality({i \in DOMAIN ts : OverallSentiment(ts[i]) = k})]

RECURSIVE SumEngagement(_)
SumEngagement(ts) ==
    IF ts = << >> THEN 0
    ELSE TotalEngagement(Head(ts)) + SumEngagement(Tail(ts))

\* sorted(..., key=total_engagement, reverse=True): stable, so tweets of equal
\* engagement keep their order.
RECURSIVE InsertDescendingUnstable(_, _)
InsertDescendingUnstable(sorted, t) ==
    IF sorted = << >> THEN <<t>>
    ELSE IF TotalEngagement(Head(sorted)) > TotalEngagement(t)
         THEN <<Head(sorted)>> \o InsertDescendingUnstable(Tail(sorted), t)
         ELSE <<t>> \o sorted

RECURSIVE InsertDescending(_, _)
InsertDescending(sorted, t) ==
    IF sorted = << >> THEN <<t>>
    ELSE IF TotalEngagement(Head(sorted)) >= TotalEngagement(t)
         THEN <<Head(sorted)>> \o InsertDescending(Tail(sorted), t)
         ELSE <<t>> \o sorted

RECURSIVE SortedDescending(_)
SortedDescending(ts) ==
    IF ts = << >> THEN << >>
    ELSE InsertDescending(SortedDescending(SubSeq(ts, 1, Len(ts) - 1)),
                          ts[Len(ts)])

\* [:5]
FirstFive(ts) == SubSeq(ts, 1, IF Len(ts) < 5 THEN Len(ts) ELSE 5)

\* A quotient a / b, kept as the pair.
Ratio(a, b) == [num |-> a, den |-> b]

\* a / b < n
RatioBelow(r, n) == r.num < n * r.den

\* datetime.strptime(created_at, '%a %b %d %H:%M:%S +0000 %Y') for the
\* strings it accepts; on any other string it raises ValueError.
Strptime ==
    ("Mon Jan 01 09:00:00 +0000 2024" :> [date |-> "2024-01-01", hour |-> 9])
    @@ ("Mon Jan 01 17:00:00 +0000 2024" :> [date |-> "2024-01-01", hour |-> 17])
    @@ ("Tue Jan 02 09:00:00 +0000 2024" :> [date |-> "2024-01-02", hour |-> 9])

\* counts[key] += 1 on a defaultdict(int)
Increment(counts, key) ==
    IF key \in DOMAIN counts THEN [counts EXCEPT ![key] = @ + 1]
    ELSE counts @@ (key :> 1)

\* The loop of _analyze_posting_frequency ended by the first ValueError.
RECURSIVE CountPostsUntilError(_, _)
CountPostsUntilError(ts, acc) ==
    IF ts = << >> THEN acc
    ELSE LET created_at == Get(Head(ts), "created_at", "")
         IN  IF created_at = "" THEN CountPostsUntilError(Tail(ts), acc)
             ELSE IF created_at \notin DOMAIN Strptime THEN acc
             ELSE LET dt == Strptime[created_at]
                  IN  CountPostsUntilError(Tail(ts),
                          [date_counts |-> Increment(acc.date_counts, dt.date),
                           hour_counts |-> Increment(acc.hour_counts, dt.hour),
                           hour_order |->
                               IF dt.hour \in DOMAIN acc.hour_counts
                               THEN acc.hour_order
                               ELSE Append(acc.hour_order, dt.hour)])

\* The loop of _analyze_posting_frequency: date_counts, hour_counts and the
\* order in which the hours were first met (the order of the dict).
RECURSIVE CountPosts(_, _)
CountPosts(ts, acc) ==
    IF ts = << >> THEN acc
    ELSE LET created_at == Get(Head(ts), "created_at", "")
         IN  IF created_at = "" \/ created_at \notin DOMAIN Strptime
             THEN CountPosts(Tail(ts), acc)
             ELSE LET dt == Strptime[created_at]
                  IN  CountPosts(Tail(ts),
                          [date_counts |-> Increment(acc.date_counts, dt.date),
                           hour_counts |-> Increment(acc.hour_counts, dt.hour),
                           hour_order |->
                               IF dt.hour \in DOMAIN acc.hour_counts
                               THEN acc.hour_order
                               ELSE Append(acc.hour_order, dt.hour)])

\* max(hour_counts.items(), key=lambda x: x[1])[0]: the first hour, in the
\* order of the dict, that has the greatest count; None for an empty dict.
MostActiveHour(hour_counts, hour_order) ==
    IF hour_order = << >> THEN "None"
    ELSE LET best == CHOOSE i \in DOMAIN hour_order :
                        /\ \A j \in DOMAIN hour_order :
                              hour_counts[hour_order[j]]
                                  <= hour_counts[hour_order[i]]
                        /\ \A j \in 1..(i - 1) :
                              hour_counts[hour_order[j]]
                                  < hour_counts[hour_order[i]]
         IN  [hour |-> hour_order[best]]

\* _analyze_posting_frequency
AnalyzePostingFrequency(ts) ==
    LET counted == CountPosts(ts, [date_counts |-> EmptyDict,
                                   hour_counts |-> EmptyDict,
                                   hour_order |-> << >>])
    IN  [daily_posts |-> counted.date_counts,
         hourly_distribution |-> counted.hour_counts,
         most_active_hour |->
             MostActiveHour(counted.hour_counts, counted.hour_order)]

\* _generate_comprehensive_analysis(analyzed_tweets, username); the text
\* totals, the sentiment trends and the engagement patterns are not carried.
GenerateComprehensiveAnalysis(ts, username) ==
    IF ts = << >> THEN EmptyDict
    ELSE
    [username |-> username,
     tweets |-> ts,
     summary |-> [total_tweets |-> Len(ts),
                  sentiment_distribution |-> SentimentDistribution(ts),
                  total_engagement |-> SumEngagement(ts),
                  average_engagement |-> Ratio(SumEngagement(ts), Len(ts)),
                  tweets_with_media |->
                      Cardinality({i \in DOMAIN ts : HasMedia(ts[i])}),
                  media_percentage |->
                      Ratio(Cardinality({i \in DOMAIN ts : HasMedia(ts[i])}) * 100,
                            Len(ts))],
     insights |-> [most_engaging_tweets |-> FirstFive(SortedDescending(ts)),
                   posting_frequency |-> AnalyzePostingFrequency(ts)]]

\* The four recommendations, by the rule that appends them.
RuleOrder == <<"engagement", "media", "sentiment", "posting_times">>

\* _generate_recommendations with the media rule evaluated only when the
\* engagement rule did not apply.
GenerateRecommendationsElif(analysis_data) ==
    LET summary == Get(analysis_data, "summary", EmptyDict)
        insights == Get(analysis_data, "insights", EmptyDict)
        avg_engagement == Get(summary, "average_engagement", Ratio(0, 1))
        media_percentage == Get(summary, "media_percentage", Ratio(0, 1))
        sentiment_dist == Get(summary, "sentiment_distribution", EmptyDict)
        posting_freq == Get(insights, "posting_frequency", EmptyDict)
        applies(rule) ==
            CASE rule = "engagement" -> RatioBelow(avg_engagement, 10)
              [] rule = "media" -> /\ ~RatioBelow(avg_engagement, 10)
                                   /\ RatioBelow(media_percentage, 30)
              [] rule = "sentiment" -> Get(sentiment_dist, "neutral", 0) > 70
              [] rule = "posting_times" -> DOMAIN posting_freq # {}
    IN  SelectSeq(RuleOrder, applies)

\* _generate_recommendations(analysis_data): every value is read with
\* .get(key, default), so it accepts the empty dict too.
GenerateRecommendations(analysis_data) ==
    LET summary == Get(analysis_data, "summary", EmptyDict)
        insights == Get(analysis_data, "insights", EmptyDict)
        avg_engagement == Get(summary, "average_engagement", Ratio(0, 1))
        media_percentage == Get(summary, "media_percentage", Ratio(0, 1))
        sentiment_dist == Get(summary, "sentiment_distribution", EmptyDict)
        posting_freq == Get(insights, "posting_frequency", EmptyDict)
        applies(rule) ==
            CASE rule = "engagement" -> RatioBelow(avg_engagement, 10)
              [] rule = "media" -> RatioBelow(media_percentage, 30)
              [] rule = "sentiment" -> Get(sentiment_dist, "neutral", 0) > 70
              [] rule = "posting_times" -> DOMAIN posting_freq # {}
    IN  SelectSeq(RuleOrder, applies)

\* Bundles as _generate_recommendations can be handed them, on both sides
\* of each threshold it tests: averages 0, 9.5, 10 and 11; media percentages
\* 0, 29, 30 and 50; 0, 70 and 71 neutral tweets; and a posting_frequency
\* that is {} (what _analyze_posting_frequency returns from its except
\* clause), has empty counts, or has counts.
SomeAverages == {Ratio(0, 1), Ratio(19, 2), Ratio(10, 1), Ratio(11, 1)}

SomePercentages == {Ratio(0, 1), Ratio(2900, 100), Ratio(3000, 100), Ratio(100, 2)}

SomeDistributions ==
    {"bullish" :> 80, "neutral" :> 70, "neutral" :> 71,
     ("neutral" :> 71) @@ ("bearish" :> 200)}

SomePostingFrequencies ==
    {EmptyDict,
     [daily_posts |-> EmptyDict, hourly_distribution |-> EmptyDict,
      most_active_hour |-> "None"],
     [daily_posts |-> ("2024-01-01" :> 1), hourly_distribution |-> (9 :> 1),
      most_active_hour |-> [hour |-> 9]]}

SomeBundles ==
    {EmptyDict} \cup
    {[summary |-> [average_engagement |-> a, media_percentage |-> m,
                   sentiment_distribution |-> d],
      insights |-> [posting_frequency |-> f]] :
        a \in SomeAverages, m \in SomePercentages,
        d \in SomeDistributions, f \in SomePostingFrequencies}

\* An analysis has returned one of these bundles; the tweets behind it are
\* not carried.
BundleReady ==
    /\ raw_tweets = << >>
    /\ analyzed_tweets = << >>
    /\ anPc = "done"
    /\ bundle \in SomeBundles
    /\ recommendations = << >>

\* The latest raw file has been loaded: any list of tweets.
AnalysisInit ==
    /\ raw_tweets \in SeqsUpTo(RawTweets, MaxItems)
    /\ analyzed_tweets = << >>
    /\ anPc = "loop"
    /\ bundle = NoResult
    /\ recommendations = << >>

\* The same, for a list of tweets of the given kind.
AnalysisStart(tweetLists) ==
    /\ raw_tweets \in tweetLists
    /\ analyzed_tweets = << >>
    /\ anPc = "loop"
    /\ bundle = NoResult
    /\ recommendations = << >>

\* No analysis is running.
AnalysisIdle ==
    /\ raw_tweets = << >>
    /\ analyzed_tweets = << >>
    /\ anPc = "idle"
    /\ bundle = NoResult
    /\ recommendations = << >>

\* One iteration of  for tweet in tweets: analyzed_tweets.append(...)
AnalyzeNextTweet ==
    /\ anPc = "loop"
    /\ Len(analyzed_tweets) < Len(raw_tweets)
    /\ analyzed_tweets' = Append(analyzed_tweets,
           analyze_single_tweet(raw_tweets[Len(analyzed_tweets) + 1]))
    /\ UNCHANGED <<raw_tweets, anPc, bundle, recommendations>>

\* The loop is over: the bundle is generated.
GenerateBundle(username) ==
    /\ anPc = "loop"
    /\ Len(analyzed_tweets) = Len(raw_tweets)
    /\ bundle' = GenerateComprehensiveAnalysis(analyzed_tweets, username)
    /\ anPc' = "done"
    /\ UNCHANGED <<raw_tweets, analyzed_tweets, recommendations>>

\* generate_insights_report, after its analyze_user_tweets call has
\* returned: the recommendations of the report.
GenerateInsightsReport ==
    /\ anPc = "done"
    /\ recommendations' = GenerateRecommendations(bundle)
    /\ anPc' = "reported"
    /\ UNCHANGED <<raw_tweets, analyzed_tweets, bundle>>

\* Bundles that carry their tweet count, with neutral tweets on both sides
\* of 70 % of the count and of the number 70: 8 and 7 of 10, 70 and 71 of
\* 100, 80, 140 and 141 of 200.
SomeNeutralCounts ==
    {<<10, 7>>, <<10, 8>>, <<100, 70>>, <<100, 71>>,
     <<200, 80>>, <<200, 140>>, <<200, 141>>}

SizedBundles ==
    {[summary |-> [total_tweets |-> c[1],
                   average_engagement |-> a, media_percentage |-> m,
                   sentiment_distribution |->
                       ("neutral" :> c[2]) @@ ("bullish" :> (c[1] - c[2]))],
      insights |-> [posting_frequency |-> f]] :
        c \in SomeNeutralCounts, a \in SomeAverages, m \in SomePercentages,
        f \in SomePostingFrequencies}

\* An analysis has returned one of the sized bundles.
SizedBundleReady ==
    /\ raw_tweets = << >>
    /\ analyzed_tweets = << >>
    /\ anPc = "done"
    /\ bundle \in SizedBundles
    /\ recommendations = << >>

-----------------------------------------------------------------------------
(* Specifications *)

\* One run of one of the two orchestrators.
OrchestratorInit ==
    /\ (AgentInit /\ PipeIdle) \/ (AgentIdle /\ PipeInit)
    /\ StoreIdle
    /\ AnalysisIdle

OrchestratorNext ==
    \/ \E i \in DOMAIN aUsernames : AgentStart(i) /\ UNCHANGED <<pipeVars, storeVars, analysisVars>>
    \/ \E i \in DOMAIN aUsernames, o \in StageOutcomes :
          AgentFetchAndStore(i, o) /\ UNCHANGED <<pipeVars, storeVars, analysisVars>>
    \/ \E i \in DOMAIN aUsernames, o \in StageOutcomes :
          AgentAnalyze(i, o) /\ UNCHANGED <<pipeVars, storeVars, analysisVars>>
    \/ AgentCombine /\ UNCHANGED <<pipeVars, storeVars, analysisVars>>
    \/ \E o \in FetchOutcomes : PipeFetch(o) /\ UNCHANGED <<agentVars, storeVars, analysisVars>>
    \/ \E s \in {"success", "error", "none"}, m \in {"saved", "raise", "none"} :
          PipeStore(s, m) /\ UNCHANGED <<agentVars, storeVars, analysisVars>>
    \/ \E a \in {"success", "error"}, s \in {"success", "error", "none"} :
          PipeAnalyze(a, s) /\ UNCHANGED <<agentVars, storeVars, analysisVars>>

SpecOrchestrator == OrchestratorInit /\ [][OrchestratorNext]_vars


\* The artifact store in use: store calls, the files the fetcher and the
\* analyzer save, and retrievals, within one day.
StoreSpecInit == AgentIdle /\ PipeIdle /\ StoreInit /\ AnalysisIdle

StoreNext ==
    \/ \E t \in TweetLists, u \in Users, k \in {"raw", "analyzed"},
          o \in WriteOutcomes :
          /\ store_tweet_data(t, u, k, o)
          /\ UNCHANGED <<backups, agentVars, pipeVars, analysisVars>>
    \/ \E a \in AnalysisBundles, u \in Users, o \in WriteOutcomes :
          /\ store_analysis_results(a, u, o)
          /\ UNCHANGED <<backups, agentVars, pipeVars, analysisVars>>
    \/ \E r \in InsightReports, u \in Users, o \in WriteOutcomes :
          /\ store_insights_report(r, u, o)
          /\ UNCHANGED <<backups, agentVars, pipeVars, analysisVars>>
    \/ \E t \in TweetLists, u \in Users, o \in WriteOutcomes :
          /\ fetch_user_tweets(t, u, o)
          /\ UNCHANGED <<backups, agentVars, pipeVars, analysisVars>>
    \/ \E u \in Users, o \in WriteOutcomes :
          /\ analyze_user_tweets(u, o)
          /\ UNCHANGED <<backups, agentVars, pipeVars, analysisVars>>
    \/ \E u \in Users, k \in {"raw", "analyzed", "insights", "all"} :
          /\ retrieve_user_data(u, k)
          /\ UNCHANGED <<backups, agentVars, pipeVars, analysisVars>>
    \/ Tick /\ UNCHANGED <<backups, agentVars, pipeVars, analysisVars>>

SpecStore == StoreSpecInit /\ [][StoreNext]_vars

\* Retention: the files saved under data/ as the days pass, organized by
\* date and cleaned up.
RetentionNext ==
    \/ \E t \in TweetLists, u \in Users :
          /\ wseq < MaxRetentionWrites
          /\ fetch_user_tweets(t, u, "ok")
          /\ UNCHANGED <<backups, agentVars, pipeVars, analysisVars>>
    \/ \E u \in Users :
          /\ analyze_user_tweets(u, "ok")
          /\ UNCHANGED <<backups, agentVars, pipeVars, analysisVars>>
    \/ \E r \in InsightReports, u \in Users :
          /\ wseq < MaxRetentionWrites
          /\ store_insights_report(r, u, "ok")
          /\ UNCHANGED <<backups, agentVars, pipeVars, analysisVars>>
    \/ \E d \in 0..MaxDay, f \in {"none", "mkdir", "move"} :
          /\ organize_data_by_date(DateStr(d), f)
          /\ UNCHANGED <<clockDay, clockSec, wseq, backups, agentVars, pipeVars, analysisVars>>
    \/ \E n \in 0..MaxKeep, f \in {"none", "rmtree", "unlink"} :
          /\ cleanup_old_data(n, f)
          /\ UNCHANGED <<clockDay, clockSec, wseq, backups, agentVars, pipeVars, analysisVars>>
    \/ Tick /\ UNCHANGED <<backups, agentVars, pipeVars, analysisVars>>
    \/ NextDay /\ UNCHANGED <<backups, agentVars, pipeVars, analysisVars>>

SpecRetention == StoreSpecInit /\ [][RetentionNext]_vars

\* Backups of the files saved under data/.
BackupNext ==
    \/ \E u \in Users :
          /\ wseq < MaxRetentionWrites
          /\ fetch_user_tweets(FreshTweets, u, "ok")
          /\ UNCHANGED <<backups, agentVars, pipeVars, analysisVars>>
    \/ /\ organize_data_by_date(DateStr(clockDay), "none")
       /\ UNCHANGED <<clockDay, clockSec, wseq, backups, agentVars, pipeVars, analysisVars>>
    \/ \E b \in BackupNames, f \in {"none", "mkdir", "copy"} :
          /\ create_backup(b, f)
          /\ UNCHANGED <<agentVars, pipeVars, analysisVars>>

SpecBackup == StoreSpecInit /\ [][BackupNext]_vars

\* One analysis of the tweets of one user.
AnalysisSpecInit == AgentIdle /\ PipeIdle /\ StoreIdle /\ AnalysisInit

AnalysisNext ==
    \/ AnalyzeNextTweet /\ UNCHANGED <<agentVars, pipeVars, storeVars>>
    \/ \E u \in Users :
          GenerateBundle(u) /\ UNCHANGED <<agentVars, pipeVars, storeVars>>
    \/ GenerateInsightsReport /\ UNCHANGED <<agentVars, pipeVars, storeVars>>

SpecAnalysis == AnalysisSpecInit /\ [][AnalysisNext]_vars

\* The recommendations drawn from a bundle.
RecommendSpecInit == AgentIdle /\ PipeIdle /\ StoreIdle /\ BundleReady

RecommendNext ==
    GenerateInsightsReport /\ UNCHANGED <<agentVars, pipeVars, storeVars>>

SpecRecommend == RecommendSpecInit /\ [][RecommendNext]_vars

\* The analysis of numbered tweets, enough of them for the top five to be
\* a proper part.
RankingSpecInit ==
    /\ AgentIdle /\ PipeIdle /\ StoreIdle
    /\ AnalysisStart(NumberedTweetLists)

SpecRanking == RankingSpecInit /\ [][AnalysisNext]_vars

\* The analysis of tweets that differ in their created_at.
DatedSpecInit ==
    /\ AgentIdle /\ PipeIdle /\ StoreIdle
    /\ AnalysisStart(SeqsUpTo(DatedTweets, MaxItems))

SpecDated == DatedSpecInit /\ [][AnalysisNext]_vars

\* The analysis of tweets that differ in their engagement counts.
EngagementSpecInit ==
    /\ AgentIdle /\ PipeIdle /\ StoreIdle
    /\ AnalysisStart(SeqsUpTo(EngagementTweets, MaxItems))

SpecEngagement == EngagementSpecInit /\ [][AnalysisNext]_vars

\* The recommendations for bundles that carry their tweet count.
SentimentSpecInit == AgentIdle /\ PipeIdle /\ StoreIdle /\ SizedBundleReady

SpecSentiment == SentimentSpecInit /\ [][RecommendNext]_vars

\* Organizing by date the files saved for users whose name may spell a date.
OrganizeNext ==
    \/ \E u \in DatedUsers :
          /\ fetch_user_tweets(FreshTweets, u, "ok")
          /\ UNCHANGED <<backups, agentVars, pipeVars, analysisVars>>
    \/ \E r \in InsightReports, u \in DatedUsers :
          /\ store_insights_report(r, u, "ok")
          /\ UNCHANGED <<backups, agentVars, pipeVars, analysisVars>>
    \/ \E d \in 0..MaxDay :
          /\ organize_data_by_date(DateStr(d), "none")
          /\ UNCHANGED <<clockDay, clockSec, wseq, backups, agentVars, pipeVars, analysisVars>>
    \/ Tick /\ UNCHANGED <<backups, agentVars, pipeVars, analysisVars>>
    \/ NextDay /\ UNCHANGED <<backups, agentVars, pipeVars, analysisVars>>

SpecOrganize == StoreSpecInit /\ [][OrganizeNext]_vars

\* Backups made again and again, with no failure of the file system.
RebackupNext ==
    \/ \E u \in Users :
          /\ wseq < MaxRetentionWrites
          /\ fetch_user_tweets(FreshTweets, u, "ok")
          /\ UNCHANGED <<backups, agentVars, pipeVars, analysisVars>>
    \/ /\ organize_data_by_date(DateStr(clockDay), "none")
       /\ UNCHANGED <<clockDay, clockSec, wseq, backups, agentVars, pipeVars, analysisVars>>
    \/ \E b \in BackupNames :
          /\ create_backup(b, "none")
          /\ UNCHANGED <<agentVars, pipeVars, analysisVars>>
    \/ Tick /\ UNCHANGED <<backups, agentVars, pipeVars, analysisVars>>

SpecRebackup == StoreSpecInit /\ [][RebackupNext]_vars

\* Files saved, organized by date and looked up again, with no cleanup.
LookupNext ==
    \/ \E u \in DatedUsers :
          /\ wseq < MaxRetentionWrites
          /\ fetch_user_tweets(FreshTweets, u, "ok")
          /\ UNCHANGED <<backups, agentVars, pipeVars, analysisVars>>
    \/ \E u \in DatedUsers :
          /\ analyze_user_tweets(u, "ok")
          /\ UNCHANGED <<backups, agentVars, pipeVars, analysisVars>>
    \/ \E d \in 0..MaxDay :
          /\ organize_data_by_date(DateStr(d), "none")
          /\ UNCHANGED <<clockDay, clockSec, wseq, backups, agentVars, pipeVars, analysisVars>>
    \/ \E u \in DatedUsers, k \in {"raw", "analyzed"} :
          /\ retrieve_user_data(u, k)
          /\ UNCHANGED <<backups, agentVars, pipeVars, analysisVars>>
    \/ Tick /\ UNCHANGED <<backups, agentVars, pipeVars, analysisVars>>
    \/ NextDay /\ UNCHANGED <<backups, agentVars, pipeVars, analysisVars>>

SpecLookup == StoreSpecInit /\ [][LookupNext]_vars

-----------------------------------------------------------------------------
(* Claims about the orchestrators, checked under SpecOrchestrator *)

\* The index of the last occurrence of username u in the list.
LastIndex(usernames, u) ==
    CHOOSE i \in DOMAIN usernames :
        /\ usernames[i] = u
        /\ \A j \in DOMAIN usernames : usernames[j] = u => j <= i

PipeFetched == pPc \in {"store", "analyze", "done", "exit1"}

PipeEnded == pPc \in {"done", "exit1"}

\* C1: the dict the batch operation returns (process_multiple_users, and
\* fetch_all_users once its loop is over) has exactly the requested usernames
\* as its keys, also when a stage of some user raised.
C1_KeySetIsRequested ==
    /\ aReturned => DOMAIN aCombined = Range(aUsernames)
    /\ PipeFetched => DOMAIN fetch_results = Range(pUsernames)

\* C1 witness: a returned batch over two distinct names, one occurring twice,
\* in which a storer call and an analyzer call raised.
C1_Witness ==
    /\ aReturned
    /\ Len(aUsernames) = 3
    /\ Cardinality(Range(aUsernames)) = 2
    /\ \E i \in DOMAIN aUsernames : aOutcome[i].fetch_and_store = "raise"
    /\ \E i \in DOMAIN aUsernames : aOutcome[i].analysis = "raise"

\* C2: a failure in one user's pipeline does not abort or change a sibling:
\* in the agent every entry is what that user's own stage outcomes give, and
\* when main has ended every user that did not itself raise has its
\* analysis result.
C2_SiblingIsolation ==
    /\ aReturned =>
          \A u \in Range(aUsernames) :
              LET o == aOutcome[LastIndex(aUsernames, u)]
              IN  aCombined[u] =
                      IF o.fetch_and_store # "success"
                      THEN StepError("fetch_and_store")
                      ELSE IF o.analysis # "success"
                           THEN StepError("analysis")
                           ELSE ProcessUserSuccess
    /\ PipeEnded =>
          \A u \in Range(pUsernames) :
              pTrace[u].media # "raise" => u \in DOMAIN analysis_results

\* C3: once a stage of a user has failed, no later stage runs for that user
\* in that run.
C3_StopsAtFirstFailure ==
    /\ \A i \in DOMAIN aUsernames :
          aOutcome[i].fetch_and_store \in {"error", "raise"}
              => aOutcome[i].analysis = "none"
    /\ \A u \in Users :
          /\ pTrace[u].fetch = "raise" =>
                /\ pTrace[u].store_raw = "none"
                /\ pTrace[u].analysis = "none"
          /\ pTrace[u].store_raw = "error" => pTrace[u].analysis = "none"
          /\ pTrace[u].analysis = "error" => pTrace[u].store_analysis = "none"

\* C4: the entry of a user whose pipeline failed, by an error dict or by an
\* exception, has status error, a message and the step that failed.
C4_ErrorEntryNamesStep ==
    aReturned =>
        \A u \in Range(aUsernames) :
            LET o == aOutcome[LastIndex(aUsernames, u)]
                r == aCombined[u]
                failed == IF o.fetch_and_store # "success"
                          THEN "fetch_and_store"
                          ELSE IF o.analysis # "success" THEN "analysis"
                               ELSE "none"
            IN  failed # "none" =>
                    /\ r.status = "error"
                    /\ "message" \in DOMAIN r
                    /\ "step" \in DOMAIN r
                    /\ r.step = failed

\* C4 witness: a returned batch in which one user's storer call raised and
\* another user's analyzer call returned an error.
C4_Witness ==
    /\ aReturned
    /\ \E u, v \in Range(aUsernames) :
          /\ u # v
          /\ aOutcome[LastIndex(aUsernames, u)].fetch_and_store = "raise"
          /\ aOutcome[LastIndex(aUsernames, v)].analysis = "error"
          /\ aCombined[u].status = "error"
          /\ aCombined[v].status = "error"

\* C19: per user the stages run in the order fetch, store(raw), analyze,
\* store(analysis), store(insights), each after the one before it has
\* completed, and a user whose pipeline is reported as successful has gone
\* through all five, the storing of an insights artifact included.
C19_FiveStagesInOrder ==
    pPc = "done" =>
        \A u \in Range(pUsernames) :
            analysis_results[u].status = "success"
                => /\ pTrace[u].fetch = "success"
                   /\ pTrace[u].store_raw = "success"
                   /\ pTrace[u].analysis = "success"
                   /\ pTrace[u].store_analysis = "success"
                   /\ pTrace[u].store_insights = "success"

\* C20: the pipelines of distinct users run concurrently and never block one
\* another: while one user's task is in the middle of its stages, the task of
\* any other user that has not started yet can start.
C20_NeverBlocked ==
    \A i, j \in DOMAIN aUsernames :
        /\ aUsernames[i] # aUsernames[j]
        /\ aPc[i] \in {"fetch_and_store", "analysis"}
        /\ aPc[j] = "created"
        => ENABLED AgentStart(j)

-----------------------------------------------------------------------------
(* Claims about the artifact store, checked under SpecStore *)

\* The store calls of DataManager.
DataManagerStores ==
    {"store_tweet_data", "store_analysis_results", "store_insights_report"}

\* C5: two store calls for the same kind and user never collide, also when
\* issued within the same second: a successful store never writes to a path
\* at which an earlier artifact lies, so no earlier artifact is overwritten.
C5_StoresNeverCollide ==
    (lastOp.op = "store" /\ lastOp.status = "success")
        => ~(lastOp.existed /\ lastOp.before.complete)

\* C6: a successful store(kind, user, payload) immediately followed by a
\* retrieval of that user and kind returns a value equal to the payload.
C6_RoundTrip ==
    (/\ lastOp.op = "retrieve"
     /\ lastOp.after.op = "store"
     /\ lastOp.after.fn \in DataManagerStores
     /\ lastOp.after.status = "success"
     /\ lastOp.username = lastOp.after.username
     /\ lastOp.data_type = lastOp.after.kind)
        => /\ lastOp.result.status = "success"
           /\ lastOp.data_type \in DOMAIN lastOp.result.data
           /\ lastOp.result.data[lastOp.data_type] = lastOp.after.payload

\* C16: a store call never leaves a partially written artifact at its final
\* path: after a store whose write failed, no file is at that path (or the
\* artifact that was there before is there unchanged).
C16_StoreAtomic ==
    (/\ lastOp.op = "store"
     /\ lastOp.fn \in DataManagerStores
     /\ lastOp.status = "error")
        => \/ lastOp.path \notin DOMAIN fs
           \/ lastOp.existed /\ fs[lastOp.path].content = lastOp.before

\* C18: the analyzer and the fetcher never write files themselves: a call
\* of analyze_user_tweets or fetch_user_tweets leaves the files on disk as
\* they were, files being created by the store calls of DataManager only.
C18_OnlyStoresWriteFiles ==
    (lastOp.op = "store" /\ lastOp.fn \notin DataManagerStores)
        => \/ lastOp.path \notin DOMAIN fs
           \/ lastOp.existed /\ fs[lastOp.path].content = lastOp.before

-----------------------------------------------------------------------------
(* Claims about retention, checked under SpecRetention *)

\* The age in whole days, at the time of the call, of the partition named d.
AgeInDays(d) == clockDay - DayOfName(d)

\* C7: cleanup_old_data(N) removes exactly the date partitions whose age in
\* days is greater than N and leaves all others in place, a partition that
\* is exactly N days old included; a directory whose name does not parse as
\* a date is never removed.
C7_RetentionExact ==
    (lastOp.op = "cleanup" /\ lastOp.status = "success")
        => LET old == {d \in lastOp.dirsBefore :
                          ParsesAsDate(d) /\ AgeInDays(d) > lastOp.days_to_keep}
           IN  /\ lastOp.removedDirs = old
               /\ topDirs = lastOp.dirsBefore \ old

\* C8: when the deletion of one entry fails, cleanup_old_data does not abort:
\* it still returns the list of the entries it removed, and of the expired
\* partitions at most the one whose deletion failed is left.
C8_BestEffortSweep ==
    (lastOp.op = "cleanup" /\ lastOp.failed # "none")
        => /\ lastOp.hasList
           /\ Cardinality(ExpiredDirs(lastOp.dirsBefore, lastOp.days_to_keep)
                          \cap topDirs) <= 1

\* C9: organize_data_by_date(d) called twice in a row leaves the files and
\* directories as the first call left them, and the second call moves no
\* file.
C9_OrganizeIdempotent ==
    (/\ lastOp.op = "organize"
     /\ lastOp.status = "success"
     /\ lastOp.again)
        => /\ lastOp.moved = {}
           /\ fs = lastOp.fsBefore
           /\ topDirs = lastOp.dirsBefore

\* The second of two calls has returned, and the partition holds a file the
\* first call moved there.
C9_Witness ==
    /\ lastOp.op = "organize"
    /\ lastOp.status = "success"
    /\ lastOp.again
    /\ \E p \in DOMAIN fs : p.root = "data" /\ p.part = lastOp.date

\* C26: after a successful cleanup_old_data(days_to_keep) no file directly
\* under raw, analyzed, processed or insights has a modification time before
\* the cutoff, and the files it removed were all before the cutoff.
C26_SweepCoversEveryKind ==
    (lastOp.op = "cleanup" /\ lastOp.status = "success")
        => /\ \A p \in DOMAIN fs :
                 (/\ p.root = "data" /\ p.part = ""
                  /\ p.sub \in {"raw", "analyzed", "processed", "insights"})
                     => ~BeforeCutoff(fs[p].mday, fs[p].msec, lastOp.days_to_keep)
           /\ lastOp.removedFiles \subseteq lastOp.looseBefore

-----------------------------------------------------------------------------
(* Claims about the analysis, checked under SpecAnalysis *)

RECURSIVE SumOfCounts(_)
SumOfCounts(counts) ==
    IF DOMAIN counts = {} THEN 0
    ELSE LET k == CHOOSE x \in DOMAIN counts : TRUE
         IN  counts[k] + SumOfCounts([x \in DOMAIN counts \ {k} |-> counts[x]])

\* C10: for every list of tweets, tweets whose analysis failed included, the
\* bundle has a summary whose total_tweets is the length of the list and
\* whose sentiment_distribution counts sum to total_tweets.
C10_TotalsMatchItems ==
    anPc = "done"
        => /\ "summary" \in DOMAIN bundle
           /\ bundle.summary.total_tweets = Len(raw_tweets)
           /\ SumOfCounts(bundle.summary.sentiment_distribution)
                  = bundle.summary.total_tweets

\* C11: for an empty list of tweets the bundle has all its aggregates at
\* zero or empty, and the recommendation list generated from it is empty.
C11_EmptyBundleIsZero ==
    (anPc = "reported" /\ raw_tweets = << >>)
        => /\ "summary" \in DOMAIN bundle
           /\ bundle.summary.total_tweets = 0
           /\ bundle.summary.total_engagement = 0
           /\ bundle.summary.average_engagement.num = 0
           /\ bundle.summary.media_percentage.num = 0
           /\ DOMAIN bundle.summary.sentiment_distribution = {}
           /\ DOMAIN bundle.insights.posting_frequency.daily_posts = {}
           /\ DOMAIN bundle.insights.posting_frequency.hourly_distribution = {}
           /\ recommendations = << >>

\* The engagement counts a tweet can carry.
CountKeys == {"retweet_count", "favorite_count", "reply_count", "quote_count"}

\* C12: for every non-empty list of tweets, each tweet's engagement total is
\* the sum of the likes, retweets, replies and quotes counts it carries (a
\* missing count adds nothing), summary.total_engagement is the sum of the
\* per-tweet totals, and average_engagement is that sum over the number of
\* tweets.
C12_EngagementTotals ==
    (anPc \in {"done", "reported"} /\ raw_tweets # << >>)
        => LET items == bundle.tweets
               totals == [i \in DOMAIN items |->
                             items[i].engagement.total_engagement]
           IN  /\ Len(items) = Len(raw_tweets)
               /\ \A i \in DOMAIN items :
                     totals[i] = SumOfCounts(
                         [k \in CountKeys \cap DOMAIN raw_tweets[i] |->
                             raw_tweets[i][k]])
               /\ bundle.summary.total_engagement = SumOfCounts(totals)
               /\ bundle.summary.average_engagement
                      = Ratio(SumOfCounts(totals), Len(raw_tweets))

\* A bundle of several tweets, one of which lacks a count and one of which
\* carries quotes, with a positive total.
C12_Witness ==
    /\ anPc = "done"
    /\ Len(raw_tweets) >= 2
    /\ \E i \in DOMAIN raw_tweets : "reply_count" \notin DOMAIN raw_tweets[i]
    /\ \E i \in DOMAIN raw_tweets : "quote_count" \in DOMAIN raw_tweets[i]
    /\ bundle.summary.total_engagement > 0

C30_EmptyMediaListIsNoMedia ==
    (anPc \in {"done", "reported"} /\ raw_tweets # << >>)
        => LET ok == {i \in DOMAIN raw_tweets : raw_tweets[i] # NotADict}
               withMedia == {i \in ok : raw_tweets[i].media = "photo"}
           IN  /\ \A i \in ok :
                     bundle.tweets[i].media.has_media = (i \in withMedia)
               /\ bundle.summary.tweets_with_media = Cardinality(withMedia)
               /\ bundle.summary.media_percentage
                     = Ratio(Cardinality(withMedia) * 100, Len(raw_tweets))

-----------------------------------------------------------------------------
(* Claims about the recommendations, checked under SpecRecommend *)

\* The place of a recommendation in the fixed rule order.
RuleIndex(rule) == CHOOSE i \in DOMAIN RuleOrder : RuleOrder[i] = rule

\* C13: for every bundle the low-engagement recommendation is present exactly
\* when average_engagement < 10, the media recommendation exactly when
\* media_percentage < 30, and the recommendations that are present appear in
\* the order engagement, media, sentiment, posting times.
C13_RulesIndependentAndOrdered ==
    (anPc = "reported" /\ "summary" \in DOMAIN bundle)
        => /\ "engagement" \in Range(recommendations)
                <=> bundle.summary.average_engagement.num
                        < 10 * bundle.summary.average_engagement.den
           /\ "media" \in Range(recommendations)
                <=> bundle.summary.media_percentage.num
                        < 30 * bundle.summary.media_percentage.den
           /\ \A i, j \in DOMAIN recommendations :
                 i < j => RuleIndex(recommendations[i])
                              < RuleIndex(recommendations[j])

\* A report in which the engagement rule did not apply and the three others
\* did.
C13_Witness ==
    /\ anPc = "reported"
    /\ "summary" \in DOMAIN bundle
    /\ recommendations = <<"media", "sentiment", "posting_times">>

-----------------------------------------------------------------------------
(* Claims about the ranking, checked under SpecRanking *)

\* Tweet a comes before tweet b in the ranking: greater engagement, or equal
\* engagement and an earlier place in the list.
RanksBefore(a, b) ==
    \/ a.engagement.total_engagement > b.engagement.total_engagement
    \/ /\ a.engagement.total_engagement = b.engagement.total_engagement
       /\ a.id < b.id

\* C14: most_engaging_tweets is the list of tweets sorted by engagement total
\* in descending order, tweets of equal totals in their original order, cut
\* to the first five; with fewer than five tweets it holds them all.
C14_TopFiveStable ==
    (anPc \in {"done", "reported"} /\ raw_tweets # << >>)
        => LET top == bundle.insights.most_engaging_tweets
               n == Len(analyzed_tweets)
           IN  /\ Len(top) = IF n < 5 THEN n ELSE 5
               /\ \A j \in DOMAIN top :
                     top[j].id \in 1..n /\ top[j] = analyzed_tweets[top[j].id]
               /\ \A j, k \in DOMAIN top : j < k => RanksBefore(top[j], top[k])
               /\ \A i \in 1..n :
                     (\A j \in DOMAIN top : top[j].id # i)
                         => \A j \in DOMAIN top :
                               RanksBefore(top[j], analyzed_tweets[i])

\* Six tweets, two of the top five with equal totals, and the tweet left out
\* with the same total as the last one kept.
C14_Witness ==
    /\ anPc = "done"
    /\ Len(raw_tweets) = 6
    /\ LET top == bundle.insights.most_engaging_tweets
       IN  /\ top[1].engagement.total_engagement
                 = top[2].engagement.total_engagement
           /\ top[1].engagement.total_engagement
                 > top[5].engagement.total_engagement
           /\ \E i \in 1..6 :
                 /\ \A j \in DOMAIN top : top[j].id # i
                 /\ analyzed_tweets[i].engagement.total_engagement
                        = top[5].engagement.total_engagement

-----------------------------------------------------------------------------
(* Claims about the posting frequency, checked under SpecDated *)

\* The tweets of the list whose created_at strptime accepts.
Parseable(tweets) ==
    {i \in DOMAIN tweets : Get(tweets[i], "created_at", "") \in DOMAIN Strptime}

\* The tweets of the list that have a created_at which cannot be parsed.
Unparseable(tweets) ==
    {i \in DOMAIN tweets :
        /\ Get(tweets[i], "created_at", "") # ""
        /\ Get(tweets[i], "created_at", "") \notin DOMAIN Strptime}

\* C15: a tweet whose created_at cannot be parsed is left out of daily_posts
\* and hourly_distribution only: these count exactly the other tweets, as if
\* it were not in the list, while total_tweets, total_engagement and
\* sentiment_distribution count every tweet.
C15_UnparseableOnlyLeavesTemporal ==
    (anPc \in {"done", "reported"} /\ raw_tweets # << >>)
        => LET pf == bundle.insights.posting_frequency
               ok == Parseable(raw_tweets)
               when(i) == Strptime[raw_tweets[i].created_at]
               label(i) == ClassifySentiment(Get(raw_tweets[i], "polarity", 0))
           IN  /\ DOMAIN pf.daily_posts = {when(i).date : i \in ok}
               /\ \A d \in DOMAIN pf.daily_posts :
                     pf.daily_posts[d]
                         = Cardinality({i \in ok : when(i).date = d})
               /\ DOMAIN pf.hourly_distribution = {when(i).hour : i \in ok}
               /\ \A h \in DOMAIN pf.hourly_distribution :
                     pf.hourly_distribution[h]
                         = Cardinality({i \in ok : when(i).hour = h})
               /\ bundle.summary.total_tweets = Len(raw_tweets)
               /\ bundle.summary.total_engagement
                      = SumOfCounts([i \in DOMAIN raw_tweets |->
                                        Get(raw_tweets[i], "favorite_count", 0)])
               /\ DOMAIN bundle.summary.sentiment_distribution
                      = {label(i) : i \in DOMAIN raw_tweets}
               /\ \A s \in DOMAIN bundle.summary.sentiment_distribution :
                     bundle.summary.sentiment_distribution[s]
                         = Cardinality({i \in DOMAIN raw_tweets : label(i) = s})

\* A bundle of three tweets: the first cannot be parsed and has likes and a
\* bullish text, the two after it can be parsed.
C15_Witness ==
    /\ anPc = "done"
    /\ Len(raw_tweets) = 3
    /\ Unparseable(raw_tweets) = {1}
    /\ Parseable(raw_tweets) = {2, 3}
    /\ raw_tweets[1].favorite_count > 0
    /\ raw_tweets[1].polarity > 0

\* C22: the posting-times recommendation is present exactly when daily_posts
\* is not empty, that is when at least one tweet has a created_at that can
\* be parsed; a bundle without any such tweet does not get it.
C22_PostingTimesNeedsADate ==
    (anPc = "reported" /\ raw_tweets # << >>)
        => /\ "posting_times" \in Range(recommendations)
                <=> DOMAIN bundle.insights.posting_frequency.daily_posts # {}
           /\ "posting_times" \in Range(recommendations)
                <=> Parseable(raw_tweets) # {}

\* C23: most_active_hour is an hour with the greatest count of
\* hourly_distribution and, among the hours with that count, the smallest
\* one, in whatever order the tweets were fetched.
C23_MostActiveHourIsSmallestArgmax ==
    (anPc \in {"done", "reported"} /\ Parseable(raw_tweets) # {})
        => LET pf == bundle.insights.posting_frequency
               h == pf.most_active_hour.hour
           IN  /\ h \in DOMAIN pf.hourly_distribution
               /\ \A g \in DOMAIN pf.hourly_distribution :
                     /\ pf.hourly_distribution[g] <= pf.hourly_distribution[h]
                     /\ pf.hourly_distribution[g] = pf.hourly_distribution[h]
                            => h <= g

-----------------------------------------------------------------------------
(* Claims about backups, checked under SpecBackup *)

\* C17: when create_backup fails, at the creation of its destination or
\* partway through copying, no partial backups/{name} is left: the backups
\* directory has the entries it had before the call.
C17_FailedBackupLeavesNothing ==
    (lastOp.op = "backup" /\ lastOp.status = "error")
        => DOMAIN backups = DOMAIN lastOp.before

\* C27: create_backup(name) called when backups/{name} already is a backup of
\* the files and directories as they are now succeeds and leaves
\* backups/{name} as it was.
C27_BackupIdempotent ==
    (/\ lastOp.op = "backup"
     /\ lastOp.name \in DOMAIN lastOp.before
     /\ lastOp.before[lastOp.name]
           = [dirs |-> topDirs \ BackupSkipped,
              files |-> FilesUnder(fs, topDirs \ BackupSkipped)])
        => /\ lastOp.status = "success"
           /\ backups[lastOp.name] = lastOp.before[lastOp.name]

-----------------------------------------------------------------------------
(* Claims about the sentiment rule, checked under SpecSentiment *)

\* C21: the sentiment recommendation is present exactly when the neutral
\* tweets are more than 70 % of the tweets, sentiment_distribution[neutral] /
\* total_tweets > 0.70, whatever the number of tweets.
C21_SentimentRuleIsAFraction ==
    anPc = "reported"
        => ("sentiment" \in Range(recommendations)
              <=> 100 * bundle.summary.sentiment_distribution["neutral"]
                      > 70 * bundle.summary.total_tweets)

-----------------------------------------------------------------------------
(* Claims about organizing by date, checked under SpecOrganize *)

\* The date a file name encodes: the date part of its timestamp,
\* {username}_{kind}_{YYYYMMDD}_{HHMMSS}.json
EncodedDate(name) == name[Len(name) - 1]

\* C25: a successful organize_data_by_date(date) moves into {date}/{kind}/
\* exactly the files directly under the kind directories whose name encodes
\* that date in its timestamp, and leaves every other file where and as it
\* was, whatever the username in its name.
C25_OrganizeMovesOnlyThatDate ==
    (lastOp.op = "organize" /\ lastOp.status = "success")
        => LET before == lastOp.fsBefore
               dated == {p \in DOMAIN before :
                            /\ p.root = "data" /\ p.part = ""
                            /\ p.sub \in Range(OrganizeSubdirs)
                            /\ EncodedDate(p.name) = StripDashes(lastOp.date)}
           IN  /\ lastOp.moved = dated
               /\ \A p \in dated :
                     /\ p \notin DOMAIN fs
                     /\ PartPath(lastOp.date, p.sub, p.name) \in DOMAIN fs
               /\ \A p \in DOMAIN before \ dated :
                     p \in DOMAIN fs /\ fs[p] = before[p]

-----------------------------------------------------------------------------
(* Claims about lookups after organizing, checked under SpecLookup *)

\* The files saved under data/ for a user and a kind, in a kind directory or
\* in a date partition.
StoredFor(files, username, kind) ==
    {p \in DOMAIN files :
        /\ p.root = "data"
        /\ p.sub = kind
        /\ Len(p.name) = Len(username) + 3
        /\ GlobMatches(username, kind, p.name)}

\* C28: with files saved and organized by date and nothing cleaned up,
\* retrieve_user_data(username, kind) returns the content of the file saved
\* last for that user and kind, and analyze_user_tweets analyses the raw file
\* saved last for the user: a file moved into a date partition is still
\* found.
C28_OrganizedDataStaysRetrievable ==
    /\ lastOp.op = "retrieve"
          => LET k == lastOp.data_type
                 stored == StoredFor(fs, lastOp.username, k)
             IN  stored # {}
                    => /\ lastOp.result.status = "success"
                       /\ k \in DOMAIN lastOp.result.data
                       /\ lastOp.result.data[k]
                             = JsonLoad(fs[Latest(fs, stored)].content)
    /\ (lastOp.op = "store" /\ lastOp.fn = "analyze_user_tweets")
          => LET stored == StoredFor(fs, lastOp.username, "raw")
             IN  stored # {}
                    => /\ lastOp.status = "success"
                       /\ lastOp.payload
                             = AnalysisOf(JsonLoad(fs[Latest(fs, stored)].content))

-----------------------------------------------------------------------------
(* Claims about the isolation of lookups, checked under SpecStore *)

\* C29: what retrieve_user_data(username, kind) returns for a kind is the
\* content of a file that was saved for that username, never of a file saved
\* for another one, also when one username is the beginning of the other.
C29_LookupIsPerUser ==
    (lastOp.op = "retrieve" /\ lastOp.result.status = "success")
        => \A k \in DOMAIN lastOp.result.data :
              \E p \in StoredFor(fs, lastOp.username, k) :
                  /\ fs[p].content.complete
                  /\ lastOp.result.data[k] = JsonLoad(fs[p].content)

=============================================================================
